---- MODULE Spec2Model ----
(***************************************************************************)
(* Copilot-Router: the rule-based model router (main.py, select_model),    *)
(* the workflow executor (tools.py, execute_tool_chain, reached through    *)
(* main.py, run_workflow) and the in-process memory (memory.py).           *)
(*                                                                         *)
(* Text that the router inspects (file paths, prompts, rule entries) is a  *)
(* sequence of one-character strings, so that split, lower and substring   *)
(* search are computed as Python computes them.  Text that is only built   *)
(* and compared (prompts sent to a backend, memory keys, model             *)
(* identifiers) is a TLA+ string, concatenated with \o.                    *)
(***************************************************************************)
EXTENDS Integers, Sequences, FiniteSets, TLC

VARIABLES
    ROUTING,         \* main.py: the ordered routing rules loaded at startup
    MODELS,          \* tools.py / main.py: the model registry loaded at startup
    WORKFLOWS,       \* the workflow definitions loaded at startup
    MEMORY,          \* memory.py: the process-wide dict
    LOG,             \* benchmark.py: the process-wide list
    chat,            \* per chat-completion request: the locals of route_to_model
    got,             \* the last get_memory call: its key and what it returned
    router_pc,       \* position of the select_model caller
    file_path,       \* select_model argument
    prompt,          \* select_model argument
    selected_model,  \* select_model return value
    matched_rule,    \* index (1-based) that select_model logs, 0 for the fallback
    task             \* per workflow request: the locals of run_workflow and
                     \* execute_tool_chain and what the request did so far

vars == <<ROUTING, MODELS, WORKFLOWS, MEMORY, LOG, chat, got, router_pc,
          file_path, prompt, selected_model, matched_rule, task>>

routerVars == <<router_pc, file_path, prompt, selected_model, matched_rule>>

(***************************************************************************)
(* Bounds of the model.                                                    *)
(***************************************************************************)
MaxRules == 3
MaxSteps == 3

(***************************************************************************)
(* Python string and list primitives used by select_model.                 *)
(***************************************************************************)
\* str.lower() on one character
lower_char(c) ==
    CASE c = "A" -> "a"
      [] c = "E" -> "e"
      [] c = "P" -> "p"
      [] c = "T" -> "t"
      [] c = "X" -> "x"
      [] c = "Y" -> "y"
      [] OTHER -> c

\* str.upper() on one character (used to vary the letter case of inputs)
upper_char(c) ==
    CASE c = "a" -> "A"
      [] c = "e" -> "E"
      [] c = "p" -> "P"
      [] c = "t" -> "T"
      [] c = "x" -> "X"
      [] c = "y" -> "Y"
      [] OTHER -> c

\* str.lower()
Lower(s) == [i \in 1..Len(s) |-> lower_char(s[i])]

\* str.upper()
Upper(s) == [i \in 1..Len(s) |-> upper_char(s[i])]

\* s.split(".")[-1]: what follows the last ".", the whole of s when it has none
SplitLast(s) ==
    LET dots == {i \in 1..Len(s) : s[i] = "."}
        last == IF dots = {} THEN 0 ELSE CHOOSE i \in dots : \A j \in dots : j <= i
    IN  SubSeq(s, last + 1, Len(s))

\* needle in hay, for two str
StrContains(hay, needle) ==
    \E i \in 0..(Len(hay) - Len(needle)) :
        SubSeq(hay, i + 1, i + Len(needle)) = needle

\* x in xs, for a list xs
ListContains(xs, x) == \E i \in 1..Len(xs) : xs[i] = x

\* rule["match"].get(key, [])
MatchGet(rule, key) ==
    IF key \in DOMAIN rule.match THEN rule.match[key] ELSE <<>>

(***************************************************************************)
(* select_model (main.py).                                                 *)
(***************************************************************************)
\* a fallback identifier that differs from the one main.py names
default_model_untagged == "ollama.com/library/qwen3:4b"

\* default_model, the fallback of select_model
default_model == "ollama.com/library/qwen3:4b-q4_K_M"

\* ext_match without the wildcard reading of an empty list
ext_match_no_wildcard(rule, ext) ==
    ListContains(MatchGet(rule, "file_extension"), ext)

\* ext_match = not exts or ext in exts
ext_match(rule, ext) ==
    LET exts == MatchGet(rule, "file_extension")
    IN  exts = <<>> \/ ListContains(exts, ext)

\* kw_match with all() in place of any()
kw_match_all(rule, prompt_lower) ==
    LET kws == MatchGet(rule, "prompt_contains")
    IN  kws = <<>> \/ \A n \in 1..Len(kws) : StrContains(prompt_lower, kws[n])

\* kw_match = not kws or any(k in prompt_lower for k in kws)
kw_match(rule, prompt_lower) ==
    LET kws == MatchGet(rule, "prompt_contains")
    IN  kws = <<>> \/ \E n \in 1..Len(kws) : StrContains(prompt_lower, kws[n])

\* the loop without its early return: the last matching rule wins
RECURSIVE rule_loop_last(_, _, _, _)
rule_loop_last(rules, i, ext, prompt_lower) ==
    IF i > Len(rules) THEN 0
    ELSE LET later == rule_loop_last(rules, i + 1, ext, prompt_lower)
         IN  IF later # 0 THEN later
             ELSE IF ext_match(rules[i], ext) /\ kw_match(rules[i], prompt_lower)
                  THEN i ELSE 0

\* the for loop over enumerate(ROUTING), from position i: the index of the
\* rule at which it returns, 0 when it runs to the end
RECURSIVE rule_loop(_, _, _, _)
rule_loop(rules, i, ext, prompt_lower) ==
    IF i > Len(rules) THEN 0
    ELSE IF ext_match(rules[i], ext) /\ kw_match(rules[i], prompt_lower) THEN i
    ELSE rule_loop(rules, i + 1, ext, prompt_lower)

\* the rule index select_model returns at, over the rule list rules
select_rule(rules, fp, p) ==
    rule_loop(rules, 1, Lower(SplitLast(fp)), Lower(p))

\* the identifier select_model returns, over the rule list rules
select_from(rules, fp, p) ==
    LET i == select_rule(rules, fp, p)
    IN  IF i = 0 THEN default_model ELSE rules[i].route_to

\* select_model(file_path, prompt), reading the global ROUTING
select_model(fp, p) == select_from(ROUTING, fp, p)

(***************************************************************************)
(* Configurations and inputs of the router.                                *)
(***************************************************************************)
BoundedSeq(S, n) == UNION {[1..m -> S] : m \in 0..n}

Rule(m, r) == [match |-> m, route_to |-> r]

RulePool ==
    { Rule([file_extension |-> << <<"p", "y">> >>], "code-model"),
      Rule([file_extension |-> <<>>,
            prompt_contains |-> << <<"e", "x">> >>], "chat-model"),
      Rule([file_extension |-> << <<"P", "Y">> >>,
            prompt_contains |-> <<>>], "upper-model"),
      Rule(<<>>, "any-model"),
      Rule([file_extension |-> << <<"t", "x", "t">>, <<"p", "y">> >>,
            prompt_contains |-> << <<"E", "x">>, <<"a", "t">> >>], "mixed-model"),
      Rule([file_extension |-> << <<"t", "x", "t">> >>,
            prompt_contains |-> << <<"a", "t">>, <<"e", "x">> >>], default_model) }

FilePaths ==
    { <<"a", ".", "p", "y">>,
      <<"A", ".", "P", "Y">>,
      <<"p", "y">>,
      <<"a", ".", "t", ".", "t", "x", "t">>,
      <<"a", ".">> }

Prompts ==
    { <<"e", "x">>, <<"t", "E", "X", "t">>, <<"p", "a", "t">>, <<>> }

NoText == <<"?">>

RouterInit ==
    /\ ROUTING \in BoundedSeq(RulePool, MaxRules)
    /\ router_pc = "idle"
    /\ file_path = NoText
    /\ prompt = NoText
    /\ selected_model = ""
    /\ matched_rule = 0
    /\ MODELS = <<>>
    /\ WORKFLOWS = <<>>
    /\ MEMORY = <<>>
    /\ task = <<>>
    /\ LOG = <<>>
    /\ chat = <<>>
    /\ got = <<>>

\* a caller hands select_model a file path and a prompt
CallSelectModel(fp, p) ==
    /\ router_pc \in {"idle", "returned"}
    /\ router_pc' = "called"
    /\ file_path' = fp
    /\ prompt' = p
    /\ selected_model' = ""
    /\ matched_rule' = 0
    /\ UNCHANGED <<ROUTING, MODELS, WORKFLOWS, LOG, chat, got, MEMORY, task>>

\* a select_model that consumes the rule it matched
ReturnSelectModel_pop ==
    /\ router_pc = "called"
    /\ router_pc' = "returned"
    /\ selected_model' = select_model(file_path, prompt)
    /\ matched_rule' = select_rule(ROUTING, file_path, prompt)
    /\ ROUTING' = IF matched_rule' = 0 THEN ROUTING
                  ELSE SubSeq(ROUTING, 1, matched_rule' - 1)
                           \o SubSeq(ROUTING, matched_rule' + 1, Len(ROUTING))
    /\ UNCHANGED <<MODELS, WORKFLOWS, LOG, chat, got, MEMORY, task, file_path, prompt>>

\* select_model runs to its return
ReturnSelectModel ==
    /\ router_pc = "called"
    /\ router_pc' = "returned"
    /\ selected_model' = select_model(file_path, prompt)
    /\ matched_rule' = select_rule(ROUTING, file_path, prompt)
    /\ UNCHANGED <<ROUTING, MODELS, WORKFLOWS, LOG, chat, got, MEMORY, task, file_path, prompt>>

RouterNext ==
    \/ \E fp \in FilePaths, p \in Prompts : CallSelectModel(fp, p)
    \/ ReturnSelectModel

SpecRouter == RouterInit /\ [][RouterNext]_vars

(***************************************************************************)
(* memory.py.                                                              *)
(***************************************************************************)
None == "None"

\* MEMORY.get(key), on the dict mem
get_memory_of(mem, key) == IF key \in DOMAIN mem THEN mem[key] ELSE None

\* get_memory(key)
get_memory(key) == get_memory_of(MEMORY, key)

\* a set_memory that appends to the stored value instead of replacing it
set_memory_append(mem, key, value) ==
    [k \in DOMAIN mem \cup {key} |->
        IF k = key
        THEN (IF key \in DOMAIN mem THEN mem[key] \o value ELSE value)
        ELSE mem[k]]

\* set_memory(key, value): the dict after MEMORY[key] = value, on the dict mem
set_memory(mem, key, value) ==
    [k \in DOMAIN mem \cup {key} |-> IF k = key THEN value ELSE mem[k]]

(***************************************************************************)
(* The backend as the executor sees it: what `await client.post(...)`      *)
(* raises or returns, and what response.json() makes of the body.          *)
(***************************************************************************)
Contents == {"r1", "r2"}

\* a body shaped {choices: [{message: {content: c}}]}
ChatBody(c) == [shape |-> "chat", content |-> c]

\* a JSON body without "choices", and a body that is no JSON
ErrorBody == [shape |-> "no_choices", content |-> ""]
InvalidBody == [shape |-> "not_json", content |-> ""]

Bodies == {ChatBody(c) : c \in Contents} \cup {ErrorBody, InvalidBody}

\* exc is the exception client.post raises, "" when it returns a response
Outcomes ==
    {[exc |-> e, status |-> 0, body |-> InvalidBody] :
        e \in {"ConnectError", "TimeoutException"}}
    \cup {[exc |-> "", status |-> st, body |-> b] : st \in {200, 500}, b \in Bodies}

\* a reading of the response that takes a body without "choices" for an
\* empty answer
ResponseError_lenient(o) ==
    IF o.exc # "" THEN o.exc
    ELSE IF o.body.shape = "not_json" THEN "JSONDecodeError"
    ELSE ""

\* the exception that `await client.post(...)` followed by
\* response.json()["choices"][0]["message"]["content"] raises, "" for none
ResponseError(o) ==
    IF o.exc # "" THEN o.exc
    ELSE IF o.body.shape = "not_json" THEN "JSONDecodeError"
    ELSE IF o.body.shape = "no_choices" THEN "KeyError"
    ELSE ""

(***************************************************************************)
(* execute_tool_chain (tools.py) under run_workflow (main.py).             *)
(***************************************************************************)
Tasks == {"t1", "t2"}

ModelStep(m, a) == [type |-> "model", model |-> m, action |-> a]
ToolStep(t) == [type |-> "tool", tool |-> t]

\* a lookup that falls back on the "summarize" workflow
WorkflowsGet_default(name) ==
    IF name \in DOMAIN WORKFLOWS THEN WORKFLOWS[name] ELSE WORKFLOWS["summarize"]

\* WORKFLOWS.get(workflow_name, [])
WorkflowsGet(name) == IF name \in DOMAIN WORKFLOWS THEN WORKFLOWS[name] ELSE <<>>

\* data.get("input", "")
InputOf(data) == IF "input" \in DOMAIN data THEN data.input ELSE ""

\* a prompt that is built from the workflow's input at every step
step_prompt_from_input(action, output, input_text) == action \o "\n\n" \o input_text

\* prompt = f"{action}\n\n{output}"
step_prompt(action, output, input_text) == action \o "\n\n" \o output

\* an output that grows by the response instead of being replaced by it
step_output_append(output, o) == output \o o.body.content

\* output = response.json()["choices"][0]["message"]["content"]
step_output(output, o) == o.body.content

\* a memory key that leaves the workflow name out
memory_key_model_only(workflow_name, model) == model

\* f"{workflow_name}:{model}"
memory_key(workflow_name, model) == workflow_name \o ":" \o model

\* f"{MODELS[model]['endpoint']}/v1/chat/completions"
step_url(model) == MODELS[model].endpoint \o "/v1/chat/completions"

\* the bookkeeping of a task, beside the locals of the two functions: memory0
\* is MEMORY as the request found it, calls the backend calls it issued,
\* replies the outcomes it got, writes its set_memory calls
IdleTask ==
    [pc |-> "idle", workflow_name |-> "", input_text |-> "", steps |-> <<>>,
     i |-> 0, output |-> "", error |-> "", result |-> None,
     memory0 |-> <<>>, calls |-> <<>>, replies |-> <<>>, writes |-> <<>>]

\* run_workflow up to the head of the for loop of execute_tool_chain
RunWorkflow(t, name, data) ==
    /\ task[t].pc = "idle"
    /\ task' = [task EXCEPT ![t] =
                   [@ EXCEPT !.pc = "loop",
                             !.workflow_name = name,
                             !.input_text = InputOf(data),
                             !.steps = WorkflowsGet(name),
                             !.i = 1,
                             !.output = InputOf(data),
                             !.memory0 = MEMORY]]
    /\ UNCHANGED <<ROUTING, MODELS, WORKFLOWS, LOG, chat, got, MEMORY, routerVars>>

\* a tool step that empties the output
RunToolStep_clears(t) ==
    LET me == task[t] IN
    /\ me.pc = "loop"
    /\ me.i <= Len(me.steps)
    /\ me.steps[me.i].type = "tool"
    /\ task' = [task EXCEPT ![t] = [@ EXCEPT !.i = me.i + 1, !.output = ""]]
    /\ UNCHANGED <<ROUTING, MODELS, WORKFLOWS, LOG, chat, got, MEMORY, routerVars>>

\* one iteration on a step of type "tool": pass
RunToolStep(t) ==
    LET me == task[t] IN
    /\ me.pc = "loop"
    /\ me.i <= Len(me.steps)
    /\ me.steps[me.i].type = "tool"
    /\ task' = [task EXCEPT ![t] = [@ EXCEPT !.i = me.i + 1]]
    /\ UNCHANGED <<ROUTING, MODELS, WORKFLOWS, LOG, chat, got, MEMORY, routerVars>>

\* a model step that sends the prompt to the first registered model when
\* its own model is not registered
PostModelStep_substitutes(t) ==
    LET me     == task[t]
        step   == me.steps[me.i]
        model  == IF step.model \in DOMAIN MODELS THEN step.model
                  ELSE CHOOSE m \in DOMAIN MODELS : TRUE
        call   == [url    |-> step_url(model),
                   model  |-> model,
                   prompt |-> step_prompt(step.action, me.output, me.input_text)]
    IN
    /\ me.pc = "loop"
    /\ me.i <= Len(me.steps)
    /\ step.type = "model"
    /\ task' = [task EXCEPT ![t] =
                   [@ EXCEPT !.pc = "await", !.calls = Append(me.calls, call)]]
    /\ UNCHANGED <<ROUTING, MODELS, WORKFLOWS, LOG, chat, got, MEMORY, routerVars>>

\* one iteration on a step of type "model", up to `await client.post(...)`;
\* MODELS[model] raises KeyError for a model that is not registered
PostModelStep(t) ==
    LET me     == task[t]
        step   == me.steps[me.i]
        call   == [url    |-> step_url(step.model),
                   model  |-> step.model,
                   prompt |-> step_prompt(step.action, me.output, me.input_text)]
    IN
    /\ me.pc = "loop"
    /\ me.i <= Len(me.steps)
    /\ step.type = "model"
    /\ task' = [task EXCEPT ![t] =
                   IF step.model \in DOMAIN MODELS
                   THEN [@ EXCEPT !.pc = "await", !.calls = Append(me.calls, call)]
                   ELSE [@ EXCEPT !.pc = "raised", !.error = "KeyError"]]
    /\ UNCHANGED <<ROUTING, MODELS, WORKFLOWS, LOG, chat, got, MEMORY, routerVars>>

\* a model step that is run again when its call fails
ResumeModelStep_retry(t, o) ==
    LET me   == task[t]
        step == me.steps[me.i]
        key  == memory_key(me.workflow_name, step.model)
    IN
    /\ me.pc = "await"
    /\ IF ResponseError(o) # ""
       THEN /\ task' = [task EXCEPT ![t] =
                           [@ EXCEPT !.pc = "loop",
                                     !.replies = Append(me.replies, o)]]
            /\ UNCHANGED MEMORY
       ELSE /\ task' = [task EXCEPT ![t] =
                           [@ EXCEPT !.pc = "loop",
                                     !.i = me.i + 1,
                                     !.output = step_output(me.output, o),
                                     !.replies = Append(me.replies, o),
                                     !.writes = Append(me.writes,
                                         [key |-> key,
                                          value |-> step_output(me.output, o)])]]
            /\ MEMORY' = set_memory(MEMORY, key, step_output(me.output, o))
    /\ UNCHANGED <<ROUTING, MODELS, WORKFLOWS, LOG, chat, got, routerVars>>

\* the rest of that iteration, from the outcome o of the awaited call:
\* output = response.json()[...]; set_memory(key, output)
ResumeModelStep(t, o) ==
    LET me   == task[t]
        step == me.steps[me.i]
        key  == memory_key(me.workflow_name, step.model)
    IN
    /\ me.pc = "await"
    /\ IF ResponseError(o) # ""
       THEN /\ task' = [task EXCEPT ![t] =
                           [@ EXCEPT !.pc = "raised",
                                     !.error = ResponseError(o),
                                     !.replies = Append(me.replies, o)]]
            /\ UNCHANGED MEMORY
       ELSE /\ task' = [task EXCEPT ![t] =
                           [@ EXCEPT !.pc = "loop",
                                     !.i = me.i + 1,
                                     !.output = step_output(me.output, o),
                                     !.replies = Append(me.replies, o),
                                     !.writes = Append(me.writes,
                                         [key |-> key,
                                          value |-> step_output(me.output, o)])]]
            /\ MEMORY' = set_memory(MEMORY, key, step_output(me.output, o))
    /\ UNCHANGED <<ROUTING, MODELS, WORKFLOWS, LOG, chat, got, routerVars>>

\* a return that takes the text from Memory, under the key of the last write
ReturnWorkflow_from_memory(t) ==
    LET me == task[t]
        text == IF me.writes = <<>> THEN me.output
                ELSE get_memory(me.writes[Len(me.writes)].key)
    IN
    /\ me.pc = "loop"
    /\ me.i > Len(me.steps)
    /\ task' = [task EXCEPT ![t] =
                   [@ EXCEPT !.pc = "returned",
                             !.result = [workflow |-> me.workflow_name,
                                         result   |-> text]]]
    /\ UNCHANGED <<ROUTING, MODELS, WORKFLOWS, LOG, chat, got, MEMORY, routerVars>>

\* the loop is over: return output, and run_workflow returns its response
ReturnWorkflow(t) ==
    LET me == task[t] IN
    /\ me.pc = "loop"
    /\ me.i > Len(me.steps)
    /\ task' = [task EXCEPT ![t] =
                   [@ EXCEPT !.pc = "returned",
                             !.result = [workflow |-> me.workflow_name,
                                         result   |-> me.output]]]
    /\ UNCHANGED <<ROUTING, MODELS, WORKFLOWS, LOG, chat, got, MEMORY, routerVars>>

\* the request is over (run_workflow returned, or the exception left it):
\* its locals are gone, MEMORY stays
EndRequest(t) ==
    /\ task[t].pc \in {"returned", "raised"}
    /\ task' = [task EXCEPT ![t] = IdleTask]
    /\ UNCHANGED <<ROUTING, MODELS, WORKFLOWS, LOG, chat, got, MEMORY, routerVars>>

(***************************************************************************)
(* Configurations and inputs of the executor.                              *)
(***************************************************************************)
StepPool ==
    { ModelStep("M1", "Draft:"),
      ModelStep("M2", "Review:"),
      ModelStep("M9", "Ask:"),
      ToolStep("lint") }

WorkflowNames == {"summarize", "chain", "missing"}

RequestData == {[input |-> "long text"], <<>>}

WorkflowInit ==
    /\ MODELS = [m \in {"M1", "M2"} |-> [endpoint |-> "http://" \o m]]
    /\ \E steps \in BoundedSeq(StepPool, MaxSteps) :
           WORKFLOWS = [n \in {"summarize", "chain"} |->
                           IF n = "summarize"
                           THEN <<ModelStep("M1", "Summarize:")>>
                           ELSE steps]
    /\ MEMORY = <<>>
    /\ task = [t \in Tasks |-> IdleTask]
    /\ LOG = <<>>
    /\ chat = <<>>
    /\ got = <<>>
    /\ ROUTING = <<>>
    /\ router_pc = "idle"
    /\ file_path = NoText
    /\ prompt = NoText
    /\ selected_model = ""
    /\ matched_rule = 0

TaskNext(t) ==
    \/ \E name \in WorkflowNames, data \in RequestData : RunWorkflow(t, name, data)
    \/ RunToolStep(t)
    \/ PostModelStep(t)
    \/ \E o \in Outcomes : ResumeModelStep(t, o)
    \/ ReturnWorkflow(t)

\* one workflow request at a time, one after the other
WorkflowNext == TaskNext("t1") \/ EndRequest("t1")

SpecWorkflow == WorkflowInit /\ [][WorkflowNext]_vars

(***************************************************************************)
(* route_to_model (main.py) and log_benchmark (benchmark.py).              *)
(***************************************************************************)
Chats == {"c1"}

\* prompt[:100] in log_benchmark
PromptLogLen == 100

\* log_benchmark(model, prompt, start, end): the list after LOG.append(...);
\* the latency and the timestamp are left out
log_benchmark(log, model, p) ==
    Append(log, [model  |-> model,
                 prompt |-> SubSeq(p, 1, IF Len(p) < PromptLogLen THEN Len(p)
                                         ELSE PromptLogLen)])

\* a file default with no extension
FileOf_no_default(data) ==
    IF "file" \in DOMAIN data THEN data.file ELSE <<>>

\* data.get("file", "unknown.txt")
FileOf(data) ==
    IF "file" \in DOMAIN data THEN data.file
    ELSE <<"u", "n", "k", "n", "o", "w", "n", ".", "t", "x", "t">>

\* data["messages"][-1]["content"] raises KeyError or IndexError
NoLastMessage(data) ==
    "messages" \notin DOMAIN data \/ Len(data.messages) = 0

\* data["messages"][-1]["content"]
LastContent(data) == data.messages[Len(data.messages)].content

\* {**data, "model": model}
WithModel(data, model) ==
    [k \in DOMAIN data \cup {"model"} |-> IF k = "model" THEN model ELSE data[k]]

\* response.is_success, which raise_for_status tests
is_success(status) == status \in 200..299

\* the payload each except clause returns
ErrorPayload(type, message) == [error |-> [message |-> message, type |-> type]]

\* no except clause was entered
NoError == ErrorPayload("", "")

\* the except chain without raise_for_status: a response of any status is
\* read as the answer
chat_error_any_status(o) ==
    IF o.exc = "ConnectError"
        THEN ErrorPayload("connection_error", "Backend model server unavailable: " \o o.exc)
    ELSE IF o.exc = "TimeoutException"
        THEN ErrorPayload("timeout_error", "Backend model server timeout: " \o o.exc)
    ELSE IF o.exc # ""
        THEN ErrorPayload("internal_error", "Internal server error: " \o o.exc)
    ELSE IF o.body.shape = "not_json"
        THEN ErrorPayload("internal_error", "Internal server error: JSONDecodeError")
    ELSE NoError

\* the except clause that the outcome o of the awaited call ends in, as the
\* payload it returns; NoError when the try block runs to its return
chat_error(o) ==
    IF o.exc = "ConnectError"
        THEN ErrorPayload("connection_error", "Backend model server unavailable: " \o o.exc)
    ELSE IF o.exc = "TimeoutException"
        THEN ErrorPayload("timeout_error", "Backend model server timeout: " \o o.exc)
    ELSE IF o.exc # ""
        THEN ErrorPayload("internal_error", "Internal server error: " \o o.exc)
    ELSE IF ~is_success(o.status)
        THEN ErrorPayload("http_error", "Backend returned error: " \o ToString(o.status))
    ELSE IF o.body.shape = "not_json"
        THEN ErrorPayload("internal_error", "Internal server error: JSONDecodeError")
    ELSE NoError

IdleChat ==
    [pc |-> "idle", data |-> <<>>, file_path |-> NoText, prompt |-> NoText,
     model |-> "", calls |-> <<>>, reply |-> None, response |-> None]

\* route_to_model up to `await client.post(...)`: the request is read, the
\* model selected and looked up; KeyError and IndexError end in the last
\* except clause
ReceiveChat(c, data) ==
    LET fp    == FileOf(data)
        p     == LastContent(data)
        model == select_model(fp, p)
    IN
    /\ chat[c].pc = "idle"
    /\ chat' = [chat EXCEPT ![c] =
          IF NoLastMessage(data)
          THEN [@ EXCEPT !.pc = "responded", !.data = data, !.file_path = fp,
                         !.response = ErrorPayload("internal_error",
                                          "Internal server error: messages")]
          ELSE IF model \notin DOMAIN MODELS
          THEN [@ EXCEPT !.pc = "responded", !.data = data, !.file_path = fp,
                         !.prompt = p, !.model = model,
                         !.response = ErrorPayload("internal_error",
                                          "Internal server error: " \o model)]
          ELSE [@ EXCEPT !.pc = "await", !.data = data, !.file_path = fp,
                         !.prompt = p, !.model = model,
                         !.calls = <<[url  |-> MODELS[model].endpoint
                                                  \o "/v1/chat/completions",
                                      json |-> WithModel(data, model)]>>]]
    /\ UNCHANGED <<ROUTING, MODELS, WORKFLOWS, LOG, got, MEMORY, task, routerVars>>

\* the rest of route_to_model, from the outcome o of the awaited call:
\* raise_for_status, log_benchmark, return response.json(), or an except clause
ResumeChat(c, o) ==
    LET me == chat[c] IN
    /\ me.pc = "await"
    /\ chat' = [chat EXCEPT ![c] =
          [@ EXCEPT !.pc = "responded",
                    !.reply = o,
                    !.response = IF chat_error(o) # NoError THEN chat_error(o)
                                 ELSE o.body]]
    /\ LOG' = IF o.exc = "" /\ is_success(o.status)
              THEN log_benchmark(LOG, me.model, me.prompt)
              ELSE LOG
    /\ UNCHANGED <<ROUTING, MODELS, WORKFLOWS, got, MEMORY, task, routerVars>>

(***************************************************************************)
(* Configurations and inputs of route_to_model.                            *)
(***************************************************************************)
Message(p) == [role |-> "user", content |-> p]

MessageLists ==
    { <<Message(<<"e", "x">>)>>,
      <<Message(<<"e", "x">>), Message(<<"p", "a", "t">>)>>,
      <<Message(<<>>)>>,
      <<>> }

ChatData ==
    {[messages |-> ms] : ms \in MessageLists}
    \cup {[file |-> f, messages |-> ms] :
             f \in {<<"a", ".", "p", "y">>, <<"a", ".", "t", ".", "t", "x", "t">>},
             ms \in MessageLists}
    \cup {[file |-> <<"a", ".", "p", "y">>]}

\* what `await client.post(...)` raises or returns in route_to_model
ChatOutcomes ==
    Outcomes
    \cup {[exc |-> "ReadError", status |-> 0, body |-> InvalidBody]}
    \cup {[exc |-> "", status |-> 302, body |-> b] : b \in {ErrorBody, InvalidBody}}

RegisteredModels == {"code-model", "chat-model", "any-model", default_model}

ChatInit ==
    /\ ROUTING \in BoundedSeq(RulePool, MaxRules)
    /\ MODELS = [m \in RegisteredModels |-> [endpoint |-> "http://" \o m]]
    /\ WORKFLOWS = <<>>
    /\ MEMORY = <<>>
    /\ LOG = <<>>
    /\ chat = [c \in Chats |-> IdleChat]
    /\ got = <<>>
    /\ task = <<>>
    /\ router_pc = "idle"
    /\ file_path = NoText
    /\ prompt = NoText
    /\ selected_model = ""
    /\ matched_rule = 0

ChatNext ==
    \E c \in Chats :
        \/ \E data \in ChatData : ReceiveChat(c, data)
        \/ \E o \in ChatOutcomes : ResumeChat(c, o)

SpecChat == ChatInit /\ [][ChatNext]_vars

(***************************************************************************)
(* get_memory (memory.py) and health_check (main.py) as requests.          *)
(***************************************************************************)
\* a caller of get_memory(key) gets its return value
GetMemory(key) ==
    /\ got' = [key |-> key, value |-> get_memory(key)]
    /\ UNCHANGED <<ROUTING, MODELS, WORKFLOWS, LOG, chat, MEMORY, task, routerVars>>

\* health_check returns the sizes of the three configuration objects
HealthCheck ==
    /\ got' = [models_loaded         |-> Cardinality(DOMAIN MODELS),
               routing_rules_loaded  |-> Len(ROUTING),
               workflows_loaded      |-> Cardinality(DOMAIN WORKFLOWS)]
    /\ UNCHANGED <<ROUTING, MODELS, WORKFLOWS, LOG, chat, MEMORY, task, routerVars>>

(***************************************************************************)
(* Two workflow requests at once: each suspends at its `await` and the     *)
(* other runs in between.                                                  *)
(***************************************************************************)
ConcChains ==
    { <<ModelStep("M1", "Draft:"), ToolStep("lint"), ModelStep("M2", "Review:")>>,
      <<ModelStep("M1", "Draft:"), ModelStep("M1", "Review:")>> }

ConcOutcomes ==
    { [exc |-> "ConnectError", status |-> 0, body |-> InvalidBody],
      [exc |-> "", status |-> 200, body |-> ChatBody("r1")],
      [exc |-> "", status |-> 200, body |-> ChatBody("r2")],
      [exc |-> "", status |-> 200, body |-> ErrorBody] }

\* the request each client sends
ConcData(t) == IF t = "t1" THEN [input |-> "long text"] ELSE <<>>

ConcKeys == {"summarize:M1", "chain:M1", "chain:M9"}

ConcInit ==
    /\ MODELS = [m \in {"M1", "M2"} |-> [endpoint |-> "http://" \o m]]
    /\ \E steps \in ConcChains :
           WORKFLOWS = [n \in {"summarize", "chain"} |->
                           IF n = "summarize"
                           THEN <<ModelStep("M1", "Summarize:")>>
                           ELSE steps]
    /\ MEMORY = <<>>
    /\ task = [t \in Tasks |-> IdleTask]
    /\ LOG = <<>>
    /\ chat = <<>>
    /\ got = <<>>
    /\ ROUTING = <<>>
    /\ router_pc = "idle"
    /\ file_path = NoText
    /\ prompt = NoText
    /\ selected_model = ""
    /\ matched_rule = 0

ConcTaskNext(t) ==
    \/ \E name \in {"summarize", "chain"} : RunWorkflow(t, name, ConcData(t))
    \/ RunToolStep(t)
    \/ PostModelStep(t)
    \/ \E o \in ConcOutcomes : ResumeModelStep(t, o)
    \/ ReturnWorkflow(t)

ConcNext ==
    \/ \E t \in Tasks : ConcTaskNext(t)
    \/ \E key \in ConcKeys : GetMemory(key)

SpecConcurrent == ConcInit /\ [][ConcNext]_vars

(***************************************************************************)
(* The server with every kind of request under way at once.                *)
(***************************************************************************)
ServerRouting ==
    << Rule([file_extension |-> << <<"p", "y">> >>], "M1"),
       Rule([file_extension |-> <<>>,
             prompt_contains |-> << <<"e", "x">> >>], "M9") >>

ServerModels == [m \in {"M1", "M2"} |-> [endpoint |-> "http://" \o m]]

ServerWorkflows ==
    [n \in {"summarize", "chain"} |->
        IF n = "summarize"
        THEN <<ModelStep("M1", "Summarize:")>>
        ELSE <<ModelStep("M1", "Draft:"), ToolStep("lint"),
               ModelStep("M9", "Ask:"), ModelStep("M2", "Review:")>>]

ServerChatData ==
    { [file |-> <<"a", ".", "p", "y">>, messages |-> <<Message(<<"e", "x">>)>>],
      [messages |-> <<Message(<<"e", "x">>)>>],
      [messages |-> <<Message(<<>>)>>] }

ServerOutcomes ==
    { [exc |-> "ConnectError", status |-> 0, body |-> InvalidBody],
      [exc |-> "", status |-> 200, body |-> ChatBody("r1")],
      [exc |-> "", status |-> 500, body |-> ErrorBody] }

ServerInit ==
    /\ ROUTING = ServerRouting
    /\ MODELS = ServerModels
    /\ WORKFLOWS = ServerWorkflows
    /\ MEMORY = <<>>
    /\ task = [t \in Tasks |-> IdleTask]
    /\ LOG = <<>>
    /\ chat = [c \in Chats |-> IdleChat]
    /\ got = <<>>
    /\ router_pc = "idle"
    /\ file_path = NoText
    /\ prompt = NoText
    /\ selected_model = ""
    /\ matched_rule = 0

ServerNext ==
    \/ \E data \in ServerChatData : ReceiveChat("c1", data)
    \/ \E o \in ServerOutcomes : ResumeChat("c1", o)
    \/ \E name \in {"summarize", "chain"} : RunWorkflow("t1", name, ConcData("t1"))
    \/ RunToolStep("t1")
    \/ PostModelStep("t1")
    \/ \E o \in ServerOutcomes : ResumeModelStep("t1", o)
    \/ ReturnWorkflow("t1")
    \/ CallSelectModel(<<"a", ".", "p", "y">>, <<"e", "x">>)
    \/ ReturnSelectModel
    \/ GetMemory("chain:M1")
    \/ HealthCheck

SpecServer == ServerInit /\ [][ServerNext]_vars

(***************************************************************************)
(* Properties of select_model.                                             *)
(***************************************************************************)
Range(f) == {f[x] : x \in DOMAIN f}

\* the two predicates of a rule as the specification words them: the
\* extension list is empty or holds the lower-cased suffix of the path, and
\* the keyword list is empty or one keyword occurs in the lower-cased prompt
RuleHolds(rule, fp, p) ==
    LET exts == MatchGet(rule, "file_extension")
        kws  == MatchGet(rule, "prompt_contains")
    IN  /\ (Len(exts) = 0 \/ Lower(SplitLast(fp)) \in Range(exts))
        /\ (Len(kws) = 0 \/ \E k \in Range(kws) : StrContains(Lower(p), k))

Holds(i) == RuleHolds(ROUTING[i], file_path, prompt)

Returned == router_pc = "returned"

\* C1: select_model returns the route_to of the lowest-indexed rule whose two
\* predicates hold; a later rule is never chosen over an earlier matching one.
C1_FirstMatchWins ==
    Returned =>
        \A i \in 1..Len(ROUTING) :
            (Holds(i) /\ \A j \in 1..(i - 1) : ~Holds(j))
                => /\ selected_model = ROUTING[i].route_to
                   /\ matched_rule = i

\* C1 witness: a wildcard rule wins over a later rule that names both the
\* extension and a keyword of the input and routes elsewhere.
C1_Witness ==
    /\ Returned
    /\ \E i, j \in 1..Len(ROUTING) :
        /\ i < j /\ Holds(i) /\ Holds(j)
        /\ MatchGet(ROUTING[i], "file_extension") = <<>>
        /\ MatchGet(ROUTING[j], "file_extension") # <<>>
        /\ MatchGet(ROUTING[j], "prompt_contains") # <<>>
        /\ ROUTING[i].route_to # ROUTING[j].route_to
        /\ selected_model = ROUTING[i].route_to

\* every entry of both match lists of every rule, rewritten by conv
ConvRules(rules, conv(_)) ==
    [n \in 1..Len(rules) |->
        [rules[n] EXCEPT !.match =
            [key \in DOMAIN rules[n].match |->
                [m \in 1..Len(rules[n].match[key]) |-> conv(rules[n].match[key][m])]]]]

\* the file path has a "." separator
HasDot == ListContains(file_path, ".")

\* every entry of every rule is written in lower case
LowerCaseRules == ConvRules(ROUTING, Lower) = ROUTING

\* C2: changing the letter case of the file path, of the prompt or of the
\* rules' file_extension and prompt_contains entries never changes the model
\* that select_model returns (stated for paths that have an extension).
C2_CaseInsensitive ==
    (Returned /\ HasDot) =>
        /\ select_model(Upper(file_path), prompt) = selected_model
        /\ select_model(Lower(file_path), prompt) = selected_model
        /\ select_model(file_path, Upper(prompt)) = selected_model
        /\ select_model(file_path, Lower(prompt)) = selected_model
        /\ select_from(ConvRules(ROUTING, Lower), file_path, prompt) = selected_model
        /\ select_from(ConvRules(ROUTING, Upper), file_path, prompt) = selected_model

\* C3: for a file path without a "." the extension is empty, so the rule
\* select_model returns at, if any, has an empty file_extension list.
C3_NoDotMatchesOnlyWildcards ==
    (Returned /\ ~HasDot /\ matched_rule # 0)
        => MatchGet(ROUTING[matched_rule], "file_extension") = <<>>

\* the rule list with the rules at positions i and j exchanged
Swap(rules, i, j) ==
    [n \in 1..Len(rules) |->
        IF n = i THEN rules[j] ELSE IF n = j THEN rules[i] ELSE rules[n]]

\* C4 as stated: for two rules with different route_to, exchanging them
\* leaves the result unchanged when only one of them matches the input, and
\* turns it into the other rule's route_to when both match and no rule before
\* them does (stated for paths that have an extension and rules written in
\* lower case).
C4_SwapAsStated ==
    (Returned /\ HasDot /\ LowerCaseRules) =>
        \A i, j \in 1..Len(ROUTING) :
            (i < j /\ ROUTING[i].route_to # ROUTING[j].route_to) =>
                LET swapped == select_from(Swap(ROUTING, i, j), file_path, prompt)
                IN  /\ (Holds(i) # Holds(j)) => swapped = selected_model
                    /\ (Holds(i) /\ Holds(j) /\ \A n \in 1..(i - 1) : ~Holds(n))
                           => /\ selected_model = ROUTING[i].route_to
                              /\ swapped = ROUTING[j].route_to

\* C4 amended: the result is unchanged when only one of the two rules matches
\* the input and no rule placed between them matches it; when both match and
\* no rule before them does, the result becomes the other rule's route_to.
C4_SwapAmended ==
    Returned =>
        \A i, j \in 1..Len(ROUTING) :
            (i < j /\ ROUTING[i].route_to # ROUTING[j].route_to) =>
                LET swapped == select_from(Swap(ROUTING, i, j), file_path, prompt)
                IN  /\ ((Holds(i) # Holds(j)) /\ \A n \in (i + 1)..(j - 1) : ~Holds(n))
                           => swapped = selected_model
                    /\ (Holds(i) /\ Holds(j) /\ \A n \in 1..(i - 1) : ~Holds(n))
                           => /\ selected_model = ROUTING[i].route_to
                              /\ swapped = ROUTING[j].route_to

\* C4 witness: two adjacent rules with different route_to that both match
\* the input, the first of them being the first match.
C4_Witness ==
    /\ Returned
    /\ \E i \in 1..(Len(ROUTING) - 1) :
        /\ Holds(i) /\ Holds(i + 1)
        /\ \A n \in 1..(i - 1) : ~Holds(n)
        /\ ROUTING[i].route_to # ROUTING[i + 1].route_to
        /\ selected_model = ROUTING[i].route_to
        /\ select_from(Swap(ROUTING, i, i + 1), file_path, prompt) = ROUTING[i + 1].route_to

\* C5: an empty or missing file_extension list matches every extension, an
\* empty or missing prompt_contains list matches every prompt; with a rule
\* whose two lists are empty, select_model returns at that rule or before it
\* and never falls back.
C5_EmptyListsAreWildcards ==
    Returned =>
        \A i \in 1..Len(ROUTING) :
            LET exts == MatchGet(ROUTING[i], "file_extension")
                kws  == MatchGet(ROUTING[i], "prompt_contains")
                noExt == [ROUTING[i] EXCEPT !.match = [prompt_contains |-> kws]]
                noKw  == [ROUTING[i] EXCEPT !.match = [file_extension |-> exts]]
            IN  /\ (exts = <<>> /\ RuleHolds(noExt, file_path, prompt))
                       => matched_rule \in 1..i
                /\ (kws = <<>> /\ RuleHolds(noKw, file_path, prompt))
                       => matched_rule \in 1..i
                /\ (exts = <<>> /\ kws = <<>>)
                       => /\ matched_rule \in 1..i
                          /\ selected_model = ROUTING[matched_rule].route_to

\* C5 witness: select_model returns at a rule whose two lists are empty or
\* missing, after a rule that did not match, for a path with an extension.
C5_Witness ==
    /\ Returned
    /\ matched_rule > 1
    /\ MatchGet(ROUTING[matched_rule], "file_extension") = <<>>
    /\ MatchGet(ROUTING[matched_rule], "prompt_contains") = <<>>
    /\ SplitLast(file_path) # <<>>
    /\ selected_model = ROUTING[matched_rule].route_to

NoRuleHolds == \A i \in 1..Len(ROUTING) : ~Holds(i)

\* C6 as stated: the result is a rule's route_to or the fallback, and it is
\* the fallback exactly when no rule matches (stated for paths that have an
\* extension and rules written in lower case).
C6_FallbackIffNoMatch ==
    (Returned /\ HasDot /\ LowerCaseRules) =>
        /\ selected_model \in {ROUTING[i].route_to : i \in 1..Len(ROUTING)}
                                \cup {"ollama.com/library/qwen3:4b-q4_K_M"}
        /\ (selected_model = "ollama.com/library/qwen3:4b-q4_K_M") <=> NoRuleHolds

\* C6 amended: the result is a rule's route_to or the fallback; it is the
\* fallback whenever no rule matches, and when a rule matches it is the
\* fallback only if the first matching rule routes to that same identifier.
C6_FallbackWhenNoMatch ==
    Returned =>
        /\ selected_model \in {ROUTING[i].route_to : i \in 1..Len(ROUTING)}
                                \cup {"ollama.com/library/qwen3:4b-q4_K_M"}
        /\ NoRuleHolds => selected_model = "ollama.com/library/qwen3:4b-q4_K_M"
        /\ (selected_model = "ollama.com/library/qwen3:4b-q4_K_M" /\ ~NoRuleHolds)
               => \E i \in 1..Len(ROUTING) :
                      /\ Holds(i) /\ \A j \in 1..(i - 1) : ~Holds(j)
                      /\ ROUTING[i].route_to = "ollama.com/library/qwen3:4b-q4_K_M"

\* C6 witness: a non-empty rule list none of whose rules matches the input,
\* and the fallback returned.
C6_Witness ==
    /\ Returned
    /\ Len(ROUTING) > 0
    /\ NoRuleHolds
    /\ selected_model = "ollama.com/library/qwen3:4b-q4_K_M"

(***************************************************************************)
(* Properties of execute_tool_chain.                                       *)
(***************************************************************************)
\* the steps the configuration declares for a workflow name, none when the
\* name is not defined
Declared(name) == IF name \in DOMAIN WORKFLOWS THEN WORKFLOWS[name] ELSE <<>>

IsModelStep(step) == step.type = "model"

\* the contents of the replies a task got, in order
ReplyContents(t) ==
    [n \in 1..Len(task[t].replies) |-> task[t].replies[n].body.content]

\* the left fold: the text after the steps, the model steps taking their
\* response contents from rs in order
RECURSIVE FoldOutput(_, _, _)
FoldOutput(steps, text, rs) ==
    IF steps = <<>> THEN text
    ELSE IF IsModelStep(Head(steps))
         THEN FoldOutput(Tail(steps), Head(rs), Tail(rs))
         ELSE FoldOutput(Tail(steps), text, rs)

\* the prompts the fold sends, in order
RECURSIVE FoldPrompts(_, _, _)
FoldPrompts(steps, text, rs) ==
    IF steps = <<>> THEN <<>>
    ELSE IF IsModelStep(Head(steps))
         THEN <<Head(steps).action \o "\n\n" \o text>>
                  \o FoldPrompts(Tail(steps), Head(rs), Tail(rs))
         ELSE FoldPrompts(Tail(steps), text, rs)

\* C7: the text execute_tool_chain returns is the left fold of the declared
\* steps over input_text: each model step turns the current text into the
\* backend's response to the prompt action + "\n\n" + text, each tool step
\* leaves it as it is, and an empty step list gives input_text back.
C7_LeftFold ==
    \A t \in Tasks :
        task[t].pc = "returned" =>
            LET me    == task[t]
                steps == Declared(me.workflow_name)
            IN  /\ Len(me.replies) = Len(SelectSeq(steps, IsModelStep))
                /\ me.result.result = FoldOutput(steps, me.input_text, ReplyContents(t))
                /\ [n \in 1..Len(me.calls) |-> me.calls[n].prompt]
                       = FoldPrompts(steps, me.input_text, ReplyContents(t))
                /\ steps = <<>> => me.result.result = me.input_text

\* C7 witness: a returned workflow of two model steps around a tool step,
\* whose result is the second response and differs from the first.
C7_Witness ==
    \E t \in Tasks :
        /\ task[t].pc = "returned"
        /\ Len(task[t].steps) = 3
        /\ IsModelStep(task[t].steps[1])
        /\ ~IsModelStep(task[t].steps[2])
        /\ IsModelStep(task[t].steps[3])
        /\ task[t].input_text = "long text"
        /\ ReplyContents(t) = <<"r1", "r2">>
        /\ task[t].result.result = "r2"

\* C8: for a workflow name that is not defined the execution raises nothing,
\* issues no backend call, writes nothing to Memory, has only its return left
\* to do and returns input_text.
C8_UnknownWorkflowPassThrough ==
    \A t \in Tasks :
        (task[t].pc # "idle" /\ task[t].workflow_name \notin DOMAIN WORKFLOWS) =>
            /\ task[t].pc \in {"loop", "returned"}
            /\ task[t].error = ""
            /\ task[t].calls = <<>>
            /\ task[t].writes = <<>>
            /\ task[t].output = task[t].input_text
            /\ task[t].pc = "loop" => ENABLED ReturnWorkflow(t)
            /\ task[t].pc = "returned" =>
                   task[t].result = [workflow |-> task[t].workflow_name,
                                     result   |-> task[t].input_text]
            /\ (\A u \in Tasks \ {t} : task[u].pc = "idle") => MEMORY = task[t].memory0

\* C8 witness: a request for an undefined workflow returned its input while
\* Memory holds what an earlier workflow wrote.
C8_Witness ==
    \E t \in Tasks :
        /\ task[t].pc = "returned"
        /\ task[t].workflow_name = "missing"
        /\ task[t].result.result = "long text"
        /\ MEMORY # <<>>
        /\ MEMORY = task[t].memory0

\* the n-th model step among steps
NthModelStep(steps, n) == SelectSeq(steps, IsModelStep)[n]

\* the dict after the writes ws, in order, each replacing the value at its key
RECURSIVE Replay(_, _)
Replay(mem, ws) ==
    IF ws = <<>> THEN mem
    ELSE Replay([k \in DOMAIN mem \cup {Head(ws).key} |->
                    IF k = Head(ws).key THEN Head(ws).value ELSE mem[k]],
                Tail(ws))

\* the task runs alone: no other request is under way
Alone(t) == \A u \in Tasks \ {t} : task[u].pc = "idle"

\* the reply was read without an exception
ReplyOk(o) == o.exc = "" /\ o.body.shape = "chat"

\* C9: each successful model step issued exactly one backend call, with the
\* prompt action + "\n\n" + output as it was before the step, then made the
\* response content the output and stored it in Memory under
\* "{workflow_name}:{model}" in place of any earlier value; after a returned
\* execution Memory holds, under each such key, the output of the last step
\* that used that model.
C9_ModelStepEffect ==
    \A t \in Tasks :
        task[t].pc # "idle" =>
            LET me    == task[t]
                steps == Declared(me.workflow_name)
                done  == Len(me.writes)
                before(n) == IF n = 1 THEN me.input_text
                             ELSE me.replies[n - 1].body.content
            IN  /\ done <= Len(me.calls) /\ Len(me.calls) <= done + 1
                /\ Len(me.calls) = done + 1 <=>
                       (me.pc = "await" \/ (me.pc = "raised" /\ Len(me.replies) > done))
                /\ \A n \in 1..Len(me.calls) :
                       /\ me.calls[n].model = NthModelStep(steps, n).model
                       /\ me.calls[n].prompt =
                              NthModelStep(steps, n).action \o "\n\n" \o before(n)
                /\ \A n \in 1..done :
                       /\ ReplyOk(me.replies[n])
                       /\ me.writes[n] =
                              [key   |-> me.workflow_name \o ":"
                                             \o NthModelStep(steps, n).model,
                               value |-> me.replies[n].body.content]
                /\ done > 0 => me.output = me.replies[done].body.content
                /\ Alone(t) => MEMORY = Replay(me.memory0, me.writes)
                /\ (me.pc = "returned" /\ Alone(t)) =>
                       /\ done = Len(SelectSeq(steps, IsModelStep))
                       /\ \A n \in 1..done :
                              (\A m \in (n + 1)..done :
                                   NthModelStep(steps, m).model # NthModelStep(steps, n).model)
                              => MEMORY[me.workflow_name \o ":"
                                            \o NthModelStep(steps, n).model]
                                     = me.replies[n].body.content

\* C9 witness: a returned workflow used the same model twice, and Memory
\* holds the second response under a key that held another value before.
C9_Witness ==
    \E t \in Tasks :
        /\ task[t].pc = "returned"
        /\ task[t].workflow_name = "chain"
        /\ Len(task[t].writes) = 2
        /\ task[t].writes[1].key = "chain:M1"
        /\ task[t].writes[2].key = "chain:M1"
        /\ task[t].writes[1].value # task[t].writes[2].value
        /\ "chain:M1" \in DOMAIN task[t].memory0
        /\ MEMORY["chain:M1"] = task[t].writes[2].value
        /\ task[t].calls[2].prompt = "Draft:\n\n" \o task[t].writes[1].value

\* C10: once a model step fails (its model is not registered, its call
\* raises, or its response cannot be read) the execution has raised that
\* error and has no result, nothing of it is left to run, it issued no call
\* and made no write after the failing step, and Memory is what the request
\* found with the writes of the successful steps before it.
C10_FailureAborts ==
    \A t \in Tasks :
        LET me     == task[t]
            steps  == Declared(me.workflow_name)
            failed == \/ me.pc = "raised"
                      \/ (me.replies # <<>> /\ ~ReplyOk(me.replies[Len(me.replies)]))
            k      == me.i
            prior  == SelectSeq(SubSeq(steps, 1, k - 1), IsModelStep)
        IN  failed =>
                /\ me.pc = "raised"
                /\ me.error # ""
                /\ me.result = None
                /\ ~ENABLED TaskNext(t)
                /\ k \in 1..Len(steps) /\ IsModelStep(steps[k])
                /\ \A n \in 1..(Len(me.replies) - 1) : ReplyOk(me.replies[n])
                /\ Len(me.calls) = Len(me.replies)
                /\ Len(me.calls) \in {Len(prior), Len(prior) + 1}
                /\ Len(me.calls) = Len(prior) <=> steps[k].model \notin DOMAIN MODELS
                /\ me.writes =
                       [n \in 1..Len(prior) |->
                           [key   |-> me.workflow_name \o ":" \o prior[n].model,
                            value |-> me.replies[n].body.content]]
                /\ Alone(t) => MEMORY = Replay(me.memory0, me.writes)

\* C10 witness: in a workflow of three model steps the second failed after
\* the first wrote Memory; the third never ran.
C10_Witness ==
    \E t \in Tasks :
        /\ task[t].pc = "raised"
        /\ Len(task[t].steps) = 3
        /\ \A n \in 1..3 : IsModelStep(task[t].steps[n])
        /\ task[t].steps[3].model \in DOMAIN MODELS
        /\ task[t].steps[3].model # task[t].steps[1].model
        /\ task[t].i = 2
        /\ Len(task[t].calls) = 2
        /\ Len(task[t].writes) = 1
        /\ task[t].memory0 = <<>>
        /\ DOMAIN MEMORY = {task[t].writes[1].key}

\* C11: a tool step does nothing: wherever the loop stands, the output, the
\* calls issued and the Memory writes are those of the model steps passed so
\* far, and the returned text, the prompts sent and the final Memory are those
\* of the workflow with its tool steps taken out.
C11_ToolStepNoAction ==
    \A t \in Tasks :
        task[t].pc \in {"loop", "await", "returned"} =>
            LET me     == task[t]
                steps  == Declared(me.workflow_name)
                models == SelectSeq(steps, IsModelStep)
                n      == Len(SelectSeq(SubSeq(steps, 1, me.i - 1), IsModelStep))
            IN  /\ Len(me.writes) = n
                /\ Len(me.calls) = n + (IF me.pc = "await" THEN 1 ELSE 0)
                /\ me.output = IF n = 0 THEN me.input_text
                               ELSE me.replies[n].body.content
                /\ Alone(t) =>
                       MEMORY = Replay(me.memory0,
                                    [m \in 1..n |->
                                        [key   |-> me.workflow_name \o ":" \o models[m].model,
                                         value |-> me.replies[m].body.content]])
                /\ me.pc = "returned" =>
                       /\ me.result.result =
                              FoldOutput(models, me.input_text, ReplyContents(t))
                       /\ [m \in 1..Len(me.calls) |-> me.calls[m].prompt]
                              = FoldPrompts(models, me.input_text, ReplyContents(t))

\* C11 witness: a workflow with a tool step before and after its one model
\* step returned that model's response after a single call.
C11_Witness ==
    \E t \in Tasks :
        /\ task[t].pc = "returned"
        /\ Len(task[t].steps) = 3
        /\ ~IsModelStep(task[t].steps[1])
        /\ IsModelStep(task[t].steps[2])
        /\ ~IsModelStep(task[t].steps[3])
        /\ task[t].input_text = "long text"
        /\ Len(task[t].calls) = 1
        /\ task[t].result.result = "r1"
        /\ DOMAIN MEMORY = {"chain:" \o task[t].steps[2].model}

(***************************************************************************)
(* Properties of route_to_model.                                           *)
(***************************************************************************)
ErrorTypes == {"connection_error", "timeout_error", "http_error", "internal_error"}

\* the type tag of an error payload, "" for any other response
ErrorType(r) ==
    IF DOMAIN r = {"error"} /\ DOMAIN r.error = {"message", "type"}
    THEN r.error.type ELSE ""

\* the outbound call was made and its outcome delivered
Called(c) == chat[c].pc = "responded" /\ chat[c].calls # <<>>

\* C12: whatever the outbound call of route_to_model ends in, the handler
\* returns: the backend's JSON when the response is 2xx and well-formed, and
\* otherwise a payload {error: {message, type}} with type connection_error
\* for an unreachable backend, timeout_error for an exceeded bound,
\* http_error for a non-2xx response and internal_error for anything else,
\* a request that fails before the call included.
C12_EveryOutcomeClassified ==
    \A c \in Chats :
        LET me == chat[c]
            o  == me.reply
        IN
        /\ me.pc \in {"idle", "await", "responded"}
        /\ me.pc = "responded" /\ me.calls = <<>>
              => ErrorType(me.response) = "internal_error"
        /\ Called(c) =>
              IF o.exc = "ConnectError"
                  THEN ErrorType(me.response) = "connection_error"
              ELSE IF o.exc = "TimeoutException"
                  THEN ErrorType(me.response) = "timeout_error"
              ELSE IF o.exc = "" /\ o.status \notin 200..299
                  THEN ErrorType(me.response) = "http_error"
              ELSE IF o.exc = "" /\ o.body.shape # "not_json"
                  THEN me.response = o.body
              ELSE ErrorType(me.response) = "internal_error"
        /\ me.pc = "responded" /\ "error" \in DOMAIN me.response
              => ErrorType(me.response) \in ErrorTypes

C12_Witness ==
    \E c \in Chats :
        /\ Called(c)
        /\ chat[c].reply.exc = ""
        /\ chat[c].reply.status = 500
        /\ chat[c].reply.body.shape = "chat"
        /\ ErrorType(chat[c].response) = "http_error"

UnknownTxt == <<"u", "n", "k", "n", "o", "w", "n", ".", "t", "x", "t">>

\* the request of chat c has a last message and no file path
NoFileRequest(c) ==
    /\ chat[c].pc \in {"await", "responded"}
    /\ "file" \notin DOMAIN chat[c].data
    /\ ~NoLastMessage(chat[c].data)

\* C20: a chat-completion request without a file path is routed as a
\* request for the file 'unknown.txt' with the content of its last message
\* as the prompt.
C20_NoFileRoutedAsUnknownTxt ==
    \A c \in Chats :
        NoFileRequest(c) =>
            /\ chat[c].prompt = LastContent(chat[c].data)
            /\ chat[c].model = select_from(ROUTING, UnknownTxt, chat[c].prompt)

\* a request without a file is routed by a rule that lists 'txt' and is
\* not the last rule a wildcard would reach
C20_Witness ==
    \E c \in Chats :
        /\ NoFileRequest(c)
        /\ Len(chat[c].data.messages) = 2
        /\ LET i == select_rule(ROUTING, UnknownTxt, chat[c].prompt)
           IN  /\ i # 0
               /\ ListContains(MatchGet(ROUTING[i], "file_extension"),
                               <<"t", "x", "t">>)
               /\ chat[c].model = "mixed-model"

(***************************************************************************)
(* Properties of failures in a workflow.                                   *)
(***************************************************************************)
\* the type tag the failure classes give the outcome o of a backend call
ErrorTag(o) ==
    IF o.exc = "ConnectError" THEN "connection_error"
    ELSE IF o.exc = "TimeoutException" THEN "timeout_error"
    ELSE IF o.exc = "" /\ o.status \notin 200..299 THEN "http_error"
    ELSE "internal_error"

\* C14: a backend failure in a workflow step (the call raises, or the
\* response cannot be read) never leaves run_workflow as a raised exception,
\* and what the endpoint returns is an error payload with the matching type.
C14_FailureIsStructuredPayload ==
    \A t \in Tasks :
        LET me == task[t] IN
        (me.replies # <<>> /\ ~ReplyOk(me.replies[Len(me.replies)])) =>
            /\ me.pc # "raised"
            /\ me.pc = "returned" =>
                   ErrorType(me.result) = ErrorTag(me.replies[Len(me.replies)])

\* C19: a response with a non-2xx status ends the workflow whatever its
\* body: it is the last reply of the execution, the execution has raised,
\* the output is the one from before the step and the step wrote nothing
\* to Memory.
C19_Non2xxIsFailure ==
    \A t \in Tasks :
        LET me == task[t] IN
        \A n \in 1..Len(me.replies) :
            (me.replies[n].exc = "" /\ me.replies[n].status \notin 200..299) =>
                /\ n = Len(me.replies)
                /\ me.pc = "raised"
                /\ Len(me.calls) = n
                /\ Len(me.writes) = n - 1
                /\ me.output = IF n = 1 THEN me.input_text
                               ELSE me.replies[n - 1].body.content

(***************************************************************************)
(* Properties of the registry lookup.                                      *)
(***************************************************************************)
\* C13: a model identifier that is not in the registry is never dispatched
\* to and never replaced by another.  A chat request whose selected model is
\* not registered is answered with an error payload naming no backend call;
\* a workflow step whose model is not registered raises the lookup error out
\* of the execution, which made no call for that step and runs no further;
\* every call that was made went to the declared, registered model.
C13_UnregisteredModelFails ==
    /\ \A c \in DOMAIN chat :
           LET me == chat[c] IN
           (me.pc # "idle" /\ ~NoLastMessage(me.data)) =>
               LET model == select_from(ROUTING, FileOf(me.data), LastContent(me.data))
               IN  /\ me.model = model
                   /\ \A n \in 1..Len(me.calls) :
                          /\ me.calls[n].json.model = model
                          /\ model \in DOMAIN MODELS
                          /\ me.calls[n].url =
                                 MODELS[model].endpoint \o "/v1/chat/completions"
                   /\ model \notin DOMAIN MODELS =>
                          /\ me.pc = "responded"
                          /\ me.calls = <<>>
                          /\ ErrorType(me.response) = "internal_error"
                          /\ LOG = <<>>
    /\ \A t \in DOMAIN task :
           LET me    == task[t]
               steps == Declared(me.workflow_name)
           IN
           me.pc # "idle" =>
               /\ \A n \in 1..Len(me.calls) :
                      /\ me.calls[n].model = NthModelStep(steps, n).model
                      /\ me.calls[n].model \in DOMAIN MODELS
                      /\ me.calls[n].url =
                             MODELS[me.calls[n].model].endpoint \o "/v1/chat/completions"
               /\ \A j \in 1..Len(steps) :
                      (IsModelStep(steps[j]) /\ steps[j].model \notin DOMAIN MODELS) =>
                          /\ me.i <= j
                          /\ me.i = j => me.pc \in {"loop", "raised"}
                          /\ (me.i = j /\ me.pc = "loop") =>
                                 /\ ENABLED PostModelStep(t)
                                 /\ ~ENABLED ReturnWorkflow(t)
                          /\ (me.i = j /\ me.pc = "raised" /\ me.error = "KeyError") =>
                                 /\ me.result = None
                                 /\ Len(me.calls) = Len(me.replies)
                                 /\ Len(me.calls) =
                                        Len(SelectSeq(SubSeq(steps, 1, j - 1), IsModelStep))
                          /\ (me.i = j /\ me.pc = "raised") =>
                                 (me.error = "KeyError" <=> Len(me.calls) = Len(me.writes))

\* C13 witness: a chat request routed to an unregistered model was answered
\* with an error and no call, and a workflow raised at its unregistered step
\* after the call of the step before it.
C13_Witness ==
    /\ chat["c1"].pc = "responded"
    /\ chat["c1"].model = "M9"
    /\ chat["c1"].calls = <<>>
    /\ task["t1"].pc = "raised"
    /\ task["t1"].error = "KeyError"
    /\ task["t1"].steps[task["t1"].i].model = "M9"
    /\ Len(task["t1"].calls) = 1
    /\ "chain:M1" \in DOMAIN MEMORY

\* C16: the model registry, the routing rule list and the workflow
\* definitions are, in every reachable state, the values loaded at start-up.
C16_ConfigurationImmutable ==
    /\ ROUTING = ServerRouting
    /\ MODELS = ServerModels
    /\ WORKFLOWS = ServerWorkflows

\* C16 witness: select_model returned by a rule, a chat request was
\* forwarded and answered, a workflow wrote Memory, and health_check ran.
C16_Witness ==
    /\ router_pc = "returned" /\ matched_rule = 1
    /\ Called("c1")
    /\ task["t1"].pc = "returned" /\ task["t1"].writes # <<>>
    /\ "models_loaded" \in DOMAIN got
    /\ C16_ConfigurationImmutable

(***************************************************************************)
(* Properties of concurrent workflow executions and of Memory.             *)
(***************************************************************************)
\* the last set_memory call of task t in the next state, when the step made one
WroteNow(t) == Len(task'[t].writes) = Len(task[t].writes) + 1

LastWrite(t) == task'[t].writes[Len(task'[t].writes)]

\* one step of the server, as Memory sees it
MemoryStep ==
    /\ DOMAIN MEMORY \subseteq DOMAIN MEMORY'
    /\ \/ /\ MEMORY' = MEMORY
          /\ \A t \in Tasks : ~WroteNow(t)
       \/ \E t \in Tasks :
              /\ WroteNow(t)
              /\ \A u \in Tasks \ {t} : ~WroteNow(u)
              /\ DOMAIN MEMORY' = DOMAIN MEMORY \cup {LastWrite(t).key}
              /\ MEMORY'[LastWrite(t).key] = LastWrite(t).value
              /\ \A k \in DOMAIN MEMORY \ {LastWrite(t).key} : MEMORY'[k] = MEMORY[k]
    /\ got' # got =>
           /\ MEMORY' = MEMORY
           /\ got'.value = IF got'.key \in DOMAIN MEMORY THEN MEMORY[got'.key]
                           ELSE None

\* C15: every step either leaves Memory as it is or is one set_memory(k, v),
\* after which k holds v and every other key holds what it held; no key is
\* ever removed; get_memory(k) changes nothing and returns the value Memory
\* holds under k, which by the above is the one of the latest set_memory(k, v),
\* or None when k was never written.
C15_LastWriteWins == [][MemoryStep]_vars

\* C15 witness: two executions wrote different values under one key, another
\* key is held too, and get_memory returned the later value.
C15_Witness ==
    /\ "key" \in DOMAIN got
    /\ got.key \in DOMAIN MEMORY
    /\ got.value = MEMORY[got.key]
    /\ Cardinality(DOMAIN MEMORY) > 1
    /\ \E n \in 1..Len(task["t1"].writes), m \in 1..Len(task["t2"].writes) :
           /\ task["t1"].writes[n].key = got.key
           /\ task["t2"].writes[m].key = got.key
           /\ task["t1"].writes[n].value # task["t2"].writes[m].value

\* C17: whatever the other executions do in between, an execution returns
\* the left fold of its declared steps over its own input and its own
\* replies, sent the prompts of that fold, and holds in output the content
\* of its latest reply: the text it would return alone on these replies.
C17_ResultUnaffectedByInterleaving ==
    \A t \in Tasks :
        LET me    == task[t]
            steps == Declared(me.workflow_name)
            done  == Len(me.writes)
        IN
        /\ me.pc \in {"loop", "await", "returned"} =>
               /\ me.output = IF done = 0 THEN me.input_text
                              ELSE me.replies[done].body.content
               /\ [n \in 1..Len(me.calls) |-> me.calls[n].prompt]
                      = FoldPrompts(SubSeq(SelectSeq(steps, IsModelStep), 1, Len(me.calls)),
                                    me.input_text, ReplyContents(t))
        /\ me.pc = "returned" =>
               me.result = [workflow |-> me.workflow_name,
                            result   |-> FoldOutput(steps, me.input_text,
                                                    ReplyContents(t))]

\* C17 witness: two executions of the same workflow returned different
\* texts, each its own last reply, and the first wrote a key whose value in
\* Memory is now the other's.
C17_Witness ==
    LET a == task["t1"]
        b == task["t2"]
    IN  /\ a.pc = "returned" /\ b.pc = "returned"
        /\ a.workflow_name = "chain" /\ b.workflow_name = "chain"
        /\ Len(a.writes) = 2 /\ Len(b.writes) = 2
        /\ a.result.result # b.result.result
        /\ a.result.result = a.replies[2].body.content
        /\ MEMORY[a.writes[2].key] # a.writes[2].value
        /\ MEMORY[a.writes[1].key] # a.writes[1].value
        /\ a.calls[2].prompt = "Review:\n\n" \o a.writes[1].value

\* C18: an execution issued its calls in the order of the declared model
\* steps, one call for each step reached and none twice; a call is in flight
\* exactly while the execution waits, never more than one; and when the n-th
\* call was issued the n-1 steps before it had their replies and their
\* writes to Memory.
C18_SequentialCalls ==
    \A t \in Tasks :
        LET me     == task[t]
            steps  == Declared(me.workflow_name)
            models == SelectSeq(steps, IsModelStep)
            flying == Len(me.calls) - Len(me.replies)
        IN  me.pc # "idle" =>
                /\ Len(me.calls) <= Len(models)
                /\ \A n \in 1..Len(me.calls) :
                       /\ me.calls[n].model = models[n].model
                       /\ me.calls[n].prompt =
                              models[n].action \o "\n\n" \o
                                  (IF n = 1 THEN me.input_text
                                   ELSE me.writes[n - 1].value)
                /\ flying \in {0, 1}
                /\ flying = 1 <=> me.pc = "await"
                /\ Len(me.writes) <= Len(me.replies)
                /\ Len(me.calls) <= Len(me.writes) + 1
                /\ \A n \in 1..Len(me.writes) :
                       /\ me.writes[n].value = me.replies[n].body.content
                       /\ me.writes[n].key \in DOMAIN MEMORY
                /\ Len(me.calls) =
                       Len(SelectSeq(SubSeq(steps, 1, me.i - 1), IsModelStep))
                           + (IF me.pc \in {"await", "raised"} /\ Len(me.calls) > Len(me.writes)
                              THEN 1 ELSE 0)

\* C18 witness: the second call of an execution is in flight after the
\* first reply was written to Memory, while the other execution waits too.
C18_Witness ==
    /\ task["t1"].pc = "await"
    /\ task["t2"].pc = "await"
    /\ Len(task["t1"].calls) = 2
    /\ Len(task["t1"].replies) = 1
    /\ Len(task["t1"].writes) = 1
    /\ task["t1"].writes[1].key \in DOMAIN MEMORY

====
